---- MODULE Spec2Model ----
(***************************************************************************)
(* Cassandra: the Streamlit dashboard of src/app.py and the quote fetch of *)
(* src/data_fetcher.py.                                                    *)
(*                                                                         *)
(* Strings are sequences of one-character strings, so that the substring   *)
(* tests of the classifier and the construction of session keys are        *)
(* computed, not assumed.  Indicator values are integers in hundredths     *)
(* (17.57 is 1757, 0.0 is 0); probabilities are integers in thousandths    *)
(* (0.3 is 300).                                                           *)
(***************************************************************************)
EXTENDS Integers, Sequences, FiniteSets, TLC

VARIABLES
    features,        \* model.feature_names_in_ of the loaded model
    sections,        \* the four (name, feature list) pairs of the last run
    session_state,   \* st.session_state: widget key -> value
    feature_values,  \* the dict the last script run built from the inputs
    result,          \* what the last script run displayed under Analyze
    lastEvent,       \* the interaction that triggered the last script run
    loaded,          \* feature -> value written by the last Load, while the
                     \* user has not edited that feature's field since
    pc,              \* position inside fetch_current_market_data
    idx,             \* index of the next symbols_map item of the loop
    data,            \* the dict fetch_current_market_data is building
    quotes,          \* what the quote source answered, per symbol queried
    queries          \* number of history() calls made, per symbol

appvars == <<features, sections, session_state, feature_values, result, lastEvent, loaded>>
fetchvars == <<pc, idx, data, quotes, queries>>
vars == <<features, sections, session_state, feature_values, result, lastEvent, loaded,
          pc, idx, data, quotes, queries>>

----------------------------------------------------------------------------
(* Bounds of the model. *)

\* longest feature-name list a model is given
MaxFeatures == 2
\* most symbols whose quote fails within one Load of the dashboard
MaxFailures == 1

----------------------------------------------------------------------------
(* Indicator names and tokens, as character sequences. *)

VIX == <<"V","I","X">>
DXY == <<"D","X","Y">>
BDIY == <<"B","D","I","Y">>
MXEU == <<"M","X","E","U">>
MXRU == <<"M","X","R","U">>
MXIN == <<"M","X","I","N">>
USGG == <<"U","S","G","G">>
GTTL == <<"G","T","T","L">>
US0001M == <<"U","S","0","0","0","1","M">>
GTITL == <<"G","T","I","T","L">>
GTJPY == <<"G","T","J","P","Y">>
GTGBP == <<"G","T","G","B","P">>
LF98TRUU == <<"L","F","9","8","T","R","U","U">>
LG30TRUU == <<"L","G","3","0","T","R","U","U">>
LP01TREU == <<"L","P","0","1","T","R","E","U">>
JPY == <<"J","P","Y">>
ECSURPUS == <<"E","C","S","U","R","P","U","S">>
USGG30YR == <<"U","S","G","G","3","0","Y","R">>
USGG2YR == <<"U","S","G","G","2","Y","R">>
USGG3M == <<"U","S","G","G","3","M">>
GTITL10YR == <<"G","T","I","T","L","1","0","Y","R">>
GTITL2YR == <<"G","T","I","T","L","2","Y","R">>
GTJPY10YR == <<"G","T","J","P","Y","1","0","Y","R">>
GTJPY2YR == <<"G","T","J","P","Y","2","Y","R">>
GTGBP30Y == <<"G","T","G","B","P","3","0","Y">>
\* a feature name that contains no token of any group
FOO == <<"F","O","O">>

\* the feature names a model may declare
FeaturePool == {MXEU, JPY, USGG30YR, GTJPY10YR, LF98TRUU, FOO}

\* F applied to the value of x, x being evaluated once
Bind(x, F(_)) == CHOOSE r \in {F(v) : v \in {x}} : TRUE

\* feature_names_in_: the column names of the training frame, all distinct
FeatureLists ==
    {fs \in UNION {[1..n -> FeaturePool] : n \in 1..MaxFeatures} :
        \A i, j \in 1..Len(fs) : i # j => fs[i] # fs[j]}

----------------------------------------------------------------------------
(* The classifier of main(): app.py lines 59-71. *)

MarketIndexTokens == <<VIX, DXY, BDIY, MXEU, MXRU, MXIN>>
RateTokens == <<USGG, GTTL, US0001M, GTITL, GTJPY, GTGBP>>
EtfTokens == <<LF98TRUU, LG30TRUU, LP01TREU>>
CurrencyTokens == <<JPY, ECSURPUS>>

\* a faulty variant of Contains: the token must open the name (str.startswith)
ContainsAtStart(x, f) ==
    /\ Len(x) <= Len(f)
    /\ \A k \in 1..Len(x) : f[k] = x[k]

\* Python's `x in f` on strings: x occurs in f at some offset
Contains(x, f) ==
    \E i \in 1..(Len(f) - Len(x) + 1) :
        \A k \in 1..Len(x) : f[i + k - 1] = x[k]

\* any(x in f for x in tokens)
AnyToken(tokens, f) == \E t \in 1..Len(tokens) : Contains(tokens[t], f)

RECURSIVE Reverse(_)
Reverse(s) == IF s = <<>> THEN <<>> ELSE Reverse(Tail(s)) \o <<Head(s)>>

\* a faulty variant of Comprehension: the matching names come out last first
ComprehensionReversed(fs, tokens) ==
    Reverse(SelectSeq(fs, LAMBDA f : AnyToken(tokens, f)))

\* [f for f in features if any(x in f for x in tokens)]
Comprehension(fs, tokens) == SelectSeq(fs, LAMBDA f : AnyToken(tokens, f))

market_indices(fs) == Comprehension(fs, MarketIndexTokens)
rates(fs) == Comprehension(fs, RateTokens)
etfs(fs) == Comprehension(fs, EtfTokens)
currencies(fs) == Comprehension(fs, CurrencyTokens)

MarketIndicesName == <<"M","a","r","k","e","t"," ","I","n","d","i","c","e","s">>
InterestRatesName == <<"I","n","t","e","r","e","s","t"," ","R","a","t","e","s">>
ETFsName == <<"E","T","F","s">>
CurrencyRatesName == <<"C","u","r","r","e","n","c","y"," ","R","a","t","e","s">>

\* lines 66-71
BuildSections(fs) ==
    << [section_name |-> MarketIndicesName, feature_list |-> market_indices(fs)],
       [section_name |-> InterestRatesName, feature_list |-> rates(fs)],
       [section_name |-> ETFsName, feature_list |-> etfs(fs)],
       [section_name |-> CurrencyRatesName, feature_list |-> currencies(fs)] >>

\* the (section, feature) pairs of one section, in the order of its list
FieldsOfSection(s) ==
    IF Len(s.feature_list) = 0 THEN <<>>
    ELSE [i \in 1..Len(s.feature_list) |->
            [section_name |-> s.section_name, feature |-> s.feature_list[i]]]

RECURSIVE FieldsFrom(_, _)
FieldsFrom(secs, i) ==
    IF i > Len(secs) THEN <<>>
    ELSE FieldsOfSection(secs[i]) \o FieldsFrom(secs, i + 1)

\* the (section, feature) pairs in the order the two nested loops visit them
FieldsOf(secs) == Bind(secs, LAMBDA v : FieldsFrom(v, 1))

\* the input fields of the dashboard
Fields == FieldsOf(sections)

----------------------------------------------------------------------------
(* Session keys: f"{section_name.lower().replace(' ', '_')}_{feature}". *)

\* the lower-case letter of every upper-case letter
LowerCaseOf ==
    ("A" :> "a") @@ ("B" :> "b") @@ ("C" :> "c") @@ ("D" :> "d") @@ ("E" :> "e") @@ ("F" :> "f") @@
    ("G" :> "g") @@ ("H" :> "h") @@ ("I" :> "i") @@ ("J" :> "j") @@ ("K" :> "k") @@ ("L" :> "l") @@
    ("M" :> "m") @@ ("N" :> "n") @@ ("O" :> "o") @@ ("P" :> "p") @@ ("Q" :> "q") @@ ("R" :> "r") @@
    ("S" :> "s") @@ ("T" :> "t") @@ ("U" :> "u") @@ ("V" :> "v") @@ ("W" :> "w") @@ ("X" :> "x") @@
    ("Y" :> "y") @@ ("Z" :> "z")

\* str.lower(), character by character
LowerChar(c) == IF c \in DOMAIN LowerCaseOf THEN LowerCaseOf[c] ELSE c

Lower(s) == [i \in 1..Len(s) |-> LowerChar(s[i])]

\* str.replace(old, new) for one-character old and new
Replace(s, old, new) == [i \in 1..Len(s) |-> IF s[i] = old THEN new ELSE s[i]]

\* section_name.lower().replace(' ', '_')
Slug(section_name) == Replace(Lower(section_name), " ", "_")

\* Slug of the four section names, computed once
SlugOf ==
    (MarketIndicesName :> Slug(MarketIndicesName)) @@
    (InterestRatesName :> Slug(InterestRatesName)) @@
    (ETFsName :> Slug(ETFsName)) @@
    (CurrencyRatesName :> Slug(CurrencyRatesName))

unique_key(section_name, feature) == SlugOf[section_name] \o <<"_">> \o feature

----------------------------------------------------------------------------
(* Dicts. *)

EmptyDict == [k \in {} |-> 0]

\* d[k] = v
Put(d, k, v) == (k :> v) @@ d

\* default_values of main(), in hundredths
default_values ==
    (BDIY :> 1212620) @@ (DXY :> 7254) @@ (VIX :> 1757) @@ (MXEU :> 5395) @@
    (MXRU :> 806) @@ (MXIN :> 5121) @@ (JPY :> 10270) @@ (USGG30YR :> 467) @@
    (USGG2YR :> 224) @@ (USGG3M :> 189) @@ (US0001M :> 246) @@
    (GTITL10YR :> 463) @@ (GTITL2YR :> 427) @@ (GTJPY10YR :> 167) @@
    (GTJPY2YR :> 80) @@ (GTGBP30Y :> 450)

\* default_values.get(feature, 0.0)
DefaultValue(feature) ==
    IF feature \in DOMAIN default_values THEN default_values[feature] ELSE 0

----------------------------------------------------------------------------
(* fetch_current_market_data: data_fetcher.py lines 4-28. *)

symbols_map ==
    << [our_symbol |-> VIX, yf_symbol |-> "^VIX"],
       [our_symbol |-> DXY, yf_symbol |-> "DX-Y.NYB"],
       [our_symbol |-> MXEU, yf_symbol |-> "IEUR"],
       [our_symbol |-> MXRU, yf_symbol |-> "ERUS"],
       [our_symbol |-> MXIN, yf_symbol |-> "INDA"],
       [our_symbol |-> USGG30YR, yf_symbol |-> "^TYX"],
       [our_symbol |-> USGG2YR, yf_symbol |-> "^IRX"],
       [our_symbol |-> JPY, yf_symbol |-> "JPY=X"] >>

SymbolNames == {symbols_map[i].our_symbol : i \in 1..Len(symbols_map)}

\* closing values the quote source may report, in hundredths
CloseValues == {2150, 9875}

\* the closing value it reports while the dashboard runs
DashboardCloseValues == {2150}

\* what one ticker.history(period="1d") call can do: return rows whose last
\* Close is `close`, return an empty frame, or raise
QuoteAnswers ==
    {[kind |-> "close", close |-> c] : c \in CloseValues}
        \cup {[kind |-> "empty", close |-> 0], [kind |-> "raise", close |-> 0]}

\* a faulty variant of FetchIteration: one try around the whole loop, so that the
\* first exception ends the loop
FetchIterationAborting(st, quote) ==
    LET our_symbol == symbols_map[st.i].our_symbol
    IN  [data |-> CASE quote.kind = "close" -> Put(st.data, our_symbol, quote.close)
                    [] quote.kind = "empty" -> st.data
                    [] quote.kind = "raise" -> Put(st.data, our_symbol, 0),
         i |-> IF quote.kind = "raise" THEN Len(symbols_map) + 1 ELSE st.i + 1,
         queries |-> [st.queries EXCEPT ![our_symbol] = @ + 1]]

\* one pass of the for loop (lines 19-26) over item st.i of symbols_map, the
\* quote source answering `quote`
FetchIteration(st, quote) ==
    LET our_symbol == symbols_map[st.i].our_symbol
    IN  [data |-> CASE quote.kind = "close" -> Put(st.data, our_symbol, quote.close)
                    [] quote.kind = "empty" -> st.data
                    [] quote.kind = "raise" -> Put(st.data, our_symbol, 0),
         i |-> st.i + 1,
         queries |-> [st.queries EXCEPT ![our_symbol] = @ + 1]]

NoQueries == [s \in SymbolNames |-> 0]

RECURSIVE FetchLoop(_, _)
FetchLoop(st, answers) ==
    IF st.i > Len(symbols_map) THEN st.data
    ELSE Bind(FetchIteration(st, answers[symbols_map[st.i].our_symbol]),
              LAMBDA st2 : FetchLoop(st2, answers))

\* the whole call, the quote source answering answers[s] for symbol s
fetch_current_market_data(answers) ==
    FetchLoop([data |-> EmptyDict, i |-> 1, queries |-> NoQueries], answers)

----------------------------------------------------------------------------
(* analyze_market: app.py lines 22-38.  Probabilities in thousandths. *)

LowThreshold == 300
MediumThreshold == 600

\* a faulty variant of analyze_market: the comparisons are <= instead of <
analyze_market_inclusive(crash_prob) ==
    IF crash_prob <= LowThreshold
    THEN [crash_prob |-> crash_prob, risk_level |-> "LOW",
          recommendation |-> "Consider maintaining full market exposure",
          color |-> "green"]
    ELSE IF crash_prob <= MediumThreshold
    THEN [crash_prob |-> crash_prob, risk_level |-> "MEDIUM",
          recommendation |-> "Consider reducing position size to 50%",
          color |-> "yellow"]
    ELSE [crash_prob |-> crash_prob, risk_level |-> "HIGH",
          recommendation |-> "Consider moving to cash",
          color |-> "red"]

analyze_market(crash_prob) ==
    IF crash_prob < LowThreshold
    THEN [crash_prob |-> crash_prob, risk_level |-> "LOW",
          recommendation |-> "Consider maintaining full market exposure",
          color |-> "green"]
    ELSE IF crash_prob < MediumThreshold
    THEN [crash_prob |-> crash_prob, risk_level |-> "MEDIUM",
          recommendation |-> "Consider reducing position size to 50%",
          color |-> "yellow"]
    ELSE [crash_prob |-> crash_prob, risk_level |-> "HIGH",
          recommendation |-> "Consider moving to cash",
          color |-> "red"]

\* every probability predict_proba may return, in thousandths
MaxProbability == 1000
AllProbabilities == 0..MaxProbability

\* the probability it returns while the dashboard runs
Probabilities == {450}

----------------------------------------------------------------------------
(* One run of the script main(): app.py lines 40-173. *)

\* a faulty variant of StoreFetched: current_data.get(feature, 0.0) without the test
StoreFetchedOrZero(ss, fld, current_data) ==
    Put(ss, unique_key(fld.section_name, fld.feature),
        IF fld.feature \in DOMAIN current_data THEN current_data[fld.feature] ELSE 0)

\* lines 82-83, for one (section, feature) of the two loops
StoreFetched(ss, fld, current_data) ==
    IF fld.feature \in DOMAIN current_data
    THEN Put(ss, unique_key(fld.section_name, fld.feature), current_data[fld.feature])
    ELSE ss

\* lines 80-83
RECURSIVE StoreFrom(_, _, _, _)
StoreFrom(ss, flds, current_data, i) ==
    IF i > Len(flds) THEN ss
    ELSE Bind(StoreFetched(ss, flds[i], current_data),
              LAMBDA ss2 : StoreFrom(ss2, flds, current_data, i + 1))

StoreAll(ss, flds, current_data) == StoreFrom(ss, flds, current_data, 1)

\* st.sidebar.number_input(value=..., key=...): the widget takes the value the
\* session holds under its key, and the given default when it holds none
NumberInput(ss, key, value) == IF key \in DOMAIN ss THEN ss ELSE Put(ss, key, value)

\* a faulty variant of RenderField: a feature already read from an earlier section
\* keeps that section's value
RenderFieldFirstWins(st, fld) ==
    Bind(unique_key(fld.section_name, fld.feature), LAMBDA unique_key_ :
        Bind(NumberInput(st.session_state, unique_key_, DefaultValue(fld.feature)),
             LAMBDA ss :
                [session_state |-> ss,
                 feature_values |->
                    IF fld.feature \in DOMAIN st.feature_values THEN st.feature_values
                    ELSE Put(st.feature_values, fld.feature, ss[unique_key_])]))

\* lines 124-131, for one (section, feature) of the two loops
RenderField(st, fld) ==
    Bind(unique_key(fld.section_name, fld.feature), LAMBDA unique_key_ :
        Bind(NumberInput(st.session_state, unique_key_, DefaultValue(fld.feature)),
             LAMBDA ss :
                [session_state |-> ss,
                 feature_values |-> Put(st.feature_values, fld.feature, ss[unique_key_])]))

RECURSIVE RenderFrom(_, _, _)
RenderFrom(st, flds, i) ==
    IF i > Len(flds) THEN st
    ELSE Bind(RenderField(st, flds[i]), LAMBDA st2 : RenderFrom(st2, flds, i + 1))

\* lines 92 and 120-131: feature_values = {} and the input loops
RenderInputs(ss, flds) ==
    RenderFrom([session_state |-> ss, feature_values |-> EmptyDict], flds, 1)

\* a faulty variant of market_data: np.array(list(feature_values.values())), the
\* values in the order the sections inserted them
market_data_by_section(fv, names) ==
    LET flds == FieldsOf(BuildSections(names))
        first == {i \in 1..Len(flds) : \A j \in 1..(i - 1) : flds[j].feature # flds[i].feature}
        order == SelectSeq(flds, LAMBDA fld : \E i \in first : flds[i] = fld)
    IN  [i \in 1..Len(names) |-> fv[order[i].feature]]

\* line 139: np.array([feature_values[f] for f in model.feature_names_in_])
market_data(fv, names) == [i \in 1..Len(names) |-> fv[names[i]]]

NoResult ==
    [status |-> "none", market_data |-> <<>>, crash_prob |-> 0,
     risk_level |-> "", recommendation |-> "", color |-> ""]

\* lines 134-154: the Analyze branch, the model answering crash_prob.
\* feature_values[f] raises KeyError for a name no section read; predict_proba
\* raises ValueError for a vector that is not one value per feature.
Analysis(fv, crash_prob) ==
    IF \E i \in 1..Len(features) : features[i] \notin DOMAIN fv
    THEN [NoResult EXCEPT !.status = "KeyError"]
    ELSE LET v == market_data(fv, features)
             r == analyze_market(crash_prob)
         IN  IF Len(v) # Len(features)
             THEN [NoResult EXCEPT !.status = "ValueError"]
             ELSE [status |-> "ok", market_data |-> v, crash_prob |-> r.crash_prob,
                   risk_level |-> r.risk_level, recommendation |-> r.recommendation,
                   color |-> r.color]

\* the features among flds whose input field has session key `key`
FeaturesOfKey(flds, key) ==
    {flds[i].feature : i \in {j \in 1..Len(flds) :
        unique_key(flds[j].section_name, flds[j].feature) = key}}

\* sets of symbols whose quote fails within one fetch
FailSets == {F \in SUBSET SymbolNames : Cardinality(F) <= MaxFailures}

\* the answers of the quote source during one Load of the dashboard
LoadAnswers ==
    {[s \in SymbolNames |->
        IF s \in F THEN [kind |-> k, close |-> 0] ELSE [kind |-> "close", close |-> c]] :
     F \in FailSets, k \in {"empty", "raise"}, c \in DashboardCloseValues}

\* what fetch_current_market_data can return to the dashboard
LoadResults == {fetch_current_market_data(answers) : answers \in LoadAnswers}

\* values a user types into a field
UserValues == {4242}

FetchIdle ==
    /\ pc = "idle"
    /\ idx = 1
    /\ data = EmptyDict
    /\ quotes = EmptyDict
    /\ queries = NoQueries

\* the session after the first run of the script
Init ==
    /\ features \in FeatureLists
    /\ sections = BuildSections(features)
    /\ \E st \in {RenderInputs(EmptyDict, FieldsOf(sections))} :
        /\ session_state = st.session_state
        /\ feature_values = st.feature_values
    /\ result = NoResult
    /\ lastEvent = "open"
    /\ loaded = EmptyDict
    /\ FetchIdle

\* the user presses "Load Current Market Data": lines 59-71, lines 77-83,
\* then the rest of the run
LoadCurrentMarketData ==
    /\ pc = "idle"
    /\ sections' = BuildSections(features)
    /\ \E flds \in {FieldsOf(sections')}, current_data \in LoadResults :
        /\ \E st \in {RenderInputs(StoreAll(session_state, flds, current_data), flds)} :
            /\ session_state' = st.session_state
            /\ feature_values' = st.feature_values
        /\ loaded' = [f \in {flds[i].feature : i \in 1..Len(flds)} \cap DOMAIN current_data
                        |-> current_data[f]]
    /\ result' = NoResult
    /\ lastEvent' = "load"
    /\ UNCHANGED <<features, pc, idx, data, quotes, queries>>

\* the user changes the number in one input field; the script reruns
EditField ==
    /\ pc = "idle"
    /\ sections' = BuildSections(features)
    /\ \E flds \in {FieldsOf(sections')}, key \in DOMAIN session_state, v \in UserValues :
        /\ v # session_state[key]
        /\ \E st \in {RenderInputs(Put(session_state, key, v), flds)} :
            /\ session_state' = st.session_state
            /\ feature_values' = st.feature_values
        /\ loaded' = [f \in DOMAIN loaded \ FeaturesOfKey(flds, key) |-> loaded[f]]
    /\ result' = NoResult
    /\ lastEvent' = "edit"
    /\ UNCHANGED <<features, pc, idx, data, quotes, queries>>

\* the user presses "Analyze Market": the inputs are read, then lines 134-171,
\* the model answering a probability of P
AnalyzeWith(P) ==
    /\ pc = "idle"
    /\ sections' = BuildSections(features)
    /\ \E st \in {RenderInputs(session_state, FieldsOf(sections'))} :
        /\ session_state' = st.session_state
        /\ feature_values' = st.feature_values
        /\ \E crash_prob \in P :
            result' = Analysis(st.feature_values, crash_prob)
    /\ lastEvent' = "analyze"
    /\ UNCHANGED <<features, loaded, pc, idx, data, quotes, queries>>

AnalyzeMarket == AnalyzeWith(Probabilities)

Next == LoadCurrentMarketData \/ EditField \/ AnalyzeMarket

Spec == Init /\ [][Next]_vars

----------------------------------------------------------------------------
(* analyze_market on its own, over every probability, for the model of the *)
(* end-to-end scenario.                                                    *)

InitEvaluate ==
    /\ features = <<VIX, JPY, USGG30YR>>
    /\ sections = BuildSections(features)
    /\ \E st \in {RenderInputs(EmptyDict, FieldsOf(sections))} :
        /\ session_state = st.session_state
        /\ feature_values = st.feature_values
    /\ result = NoResult
    /\ lastEvent = "open"
    /\ loaded = EmptyDict
    /\ FetchIdle

Evaluate == AnalyzeWith(AllProbabilities)

NextEvaluate == Evaluate

SpecEvaluate == InitEvaluate /\ [][NextEvaluate]_vars

----------------------------------------------------------------------------
(* fetch_current_market_data on its own, one loop pass per step. *)

InitFetch ==
    /\ features = <<VIX>>
    /\ sections = BuildSections(features)
    /\ \E st \in {RenderInputs(EmptyDict, FieldsOf(sections))} :
        /\ session_state = st.session_state
        /\ feature_values = st.feature_values
    /\ result = NoResult
    /\ lastEvent = "open"
    /\ loaded = EmptyDict
    /\ FetchIdle

\* line 18
FetchCall ==
    /\ pc \in {"idle", "returned"}
    /\ pc' = "loop"
    /\ idx' = 1
    /\ data' = EmptyDict
    /\ quotes' = EmptyDict
    /\ queries' = NoQueries
    /\ UNCHANGED appvars

\* lines 19-26, one item of symbols_map
FetchQuery ==
    /\ pc = "loop"
    /\ idx <= Len(symbols_map)
    /\ \E quote \in QuoteAnswers :
        /\ \E st \in {FetchIteration([data |-> data, i |-> idx, queries |-> queries], quote)} :
            /\ data' = st.data
            /\ idx' = st.i
            /\ queries' = st.queries
        /\ quotes' = Put(quotes, symbols_map[idx].our_symbol, quote)
    /\ UNCHANGED <<pc, features, sections, session_state, feature_values, result, lastEvent, loaded>>

\* line 28
FetchReturn ==
    /\ pc = "loop"
    /\ idx > Len(symbols_map)
    /\ pc' = "returned"
    /\ UNCHANGED <<idx, data, quotes, queries>>
    /\ UNCHANGED appvars

NextFetch == FetchCall \/ FetchQuery \/ FetchReturn

SpecFetch == InitFetch /\ [][NextFetch]_vars

----------------------------------------------------------------------------
(* What the claims are stated with. *)

\* the names section g lists
Members(g) == {sections[g].feature_list[i] : i \in 1..Len(sections[g].feature_list)}

\* the sections that list feature f
SectionsOf(f) == {g \in 1..Len(sections) : f \in Members(g)}

\* tok is a contiguous part of name
OccursIn(tok, name) ==
    \E i \in 0..Len(name), j \in 0..Len(name) : i <= j /\ SubSeq(name, i + 1, j) = tok

\* the token sets of the four groups, in section order
GroupTokens == <<MarketIndexTokens, RateTokens, EtfTokens, CurrencyTokens>>

\* the session keys the four sections are expected to use, before the feature
ExpectedSlug ==
    << <<"m","a","r","k","e","t","_","i","n","d","i","c","e","s","_">>,
       <<"i","n","t","e","r","e","s","t","_","r","a","t","e","s","_">>,
       <<"e","t","f","s","_">>,
       <<"c","u","r","r","e","n","c","y","_","r","a","t","e","s","_">> >>

ExpectedKey(g, f) == ExpectedSlug[g] \o f

\* the last section, in section order, that lists f
LastSection(f) == CHOOSE g \in SectionsOf(f) : \A h \in SectionsOf(f) : h <= g

\* the position of f in the model's feature list
Position(f) == CHOOSE i \in 1..Len(features) : features[i] = f

LowTriple == <<"LOW", "Consider maintaining full market exposure", "green">>
MediumTriple == <<"MEDIUM", "Consider reducing position size to 50%", "yellow">>
HighTriple == <<"HIGH", "Consider moving to cash", "red">>

ResultTriple == <<result.risk_level, result.recommendation, result.color>>

----------------------------------------------------------------------------
(* The claims. *)

\* C1: for every probability p, analyze_market yields exactly one of the three
\* complete triples: the LOW row iff p < 0.3, the MEDIUM row iff
\* 0.3 <= p < 0.6, the HIGH row iff p >= 0.6; tier, recommendation and color
\* are never mixed across rows.
C1_TierTriples ==
    result.status = "ok" =>
        /\ ResultTriple \in {LowTriple, MediumTriple, HighTriple}
        /\ ResultTriple = LowTriple <=> result.crash_prob < 300
        /\ ResultTriple = MediumTriple <=> (300 <= result.crash_prob /\ result.crash_prob < 600)
        /\ ResultTriple = HighTriple <=> result.crash_prob >= 600

\* C1 witness: the probability 0.3 itself was analysed and came out MEDIUM
C1_Witness ==
    /\ result.status = "ok"
    /\ result.crash_prob = 300
    /\ ResultTriple = MediumTriple

\* C2: a feature name is a member of a group iff it contains at least one of
\* the group's tokens as a substring, independently per group: USGG30YR is
\* only in Interest Rates, MXEU only in Market Indices, FOO in no group, and
\* GTJPY10YR in both Interest Rates and Currency Rates.
C2_GroupMembership ==
    /\ \A i \in 1..Len(features), g \in 1..Len(sections) :
        features[i] \in Members(g)
            <=> \E t \in 1..Len(GroupTokens[g]) : OccursIn(GroupTokens[g][t], features[i])
    /\ \A i \in 1..Len(features) :
        /\ features[i] = USGG30YR => SectionsOf(features[i]) = {2}
        /\ features[i] = MXEU => SectionsOf(features[i]) = {1}
        /\ features[i] = FOO => SectionsOf(features[i]) = {}
        /\ features[i] = GTJPY10YR => SectionsOf(features[i]) = {2, 4}

\* C2 witness: a run of the script, after a Load, classified a model with a
\* name in two groups and a name in none
C2_Witness ==
    /\ lastEvent = "load"
    /\ features = <<GTJPY10YR, FOO>>
    /\ sections[2].feature_list = <<GTJPY10YR>>
    /\ sections[4].feature_list = <<GTJPY10YR>>
    /\ sections[1].feature_list = <<>>
    /\ sections[3].feature_list = <<>>

\* C3: within each group the member names appear in the relative order of
\* the model's feature list, each once, and all of them are features.
C3_StableOrder ==
    \A g \in 1..Len(sections) :
        LET list == sections[g].feature_list
        IN  /\ \A a \in 1..Len(list) : \E i \in 1..Len(features) : features[i] = list[a]
            /\ \A a, b \in 1..Len(list) : a # b => list[a] # list[b]
            /\ \A a, b \in 1..Len(list) : a < b => Position(list[a]) < Position(list[b])

\* C3 witness: a run of the script, after an edit, listed a group of two
\* names in the model's order, which is not the alphabetical one
C3_Witness ==
    /\ lastEvent = "edit"
    /\ features = <<USGG30YR, GTJPY10YR>>
    /\ sections[2].feature_list = <<USGG30YR, GTJPY10YR>>

\* C4: for every symbol whose fetch fails in any way (the call raises, or it
\* returns no rows) the returned mapping holds 0.0 under its name, and every
\* other symbol is present with its latest close.
C4_FailureYieldsZero ==
    pc = "returned" =>
        \A s \in SymbolNames :
            /\ s \in DOMAIN data
            /\ data[s] = IF quotes[s].kind = "close" THEN quotes[s].close ELSE 0

\* C5: with a feature that matches no group, Analyze still assembles a vector
\* holding 0.0 for it, and the evaluation completes with a risk assessment.
C5_UngroupedDefaultsToZero ==
    lastEvent = "analyze" =>
        /\ result.status = "ok"
        /\ \A i \in 1..Len(features) :
            SectionsOf(features[i]) = {} => result.market_data[i] = 0

\* C6: whenever Analyze passes a vector to the model, it has one entry per
\* name of the feature list, in that order, and entry i is the value of the
\* input field of feature i (of its last section, when it has several); the
\* model never refuses the vector for its shape.
C6_VectorMatchesFeatures ==
    /\ result.status # "ValueError"
    /\ result.status = "ok" =>
        /\ DOMAIN result.market_data = 1..Len(features)
        /\ \A i \in 1..Len(features) :
            /\ SectionsOf(features[i]) # {}
            /\ result.market_data[i]
                 = session_state[ExpectedKey(LastSection(features[i]), features[i])]

\* C6 witness: after an edit and a Load, a vector whose order is the model's
\* and not the sections'
C6_Witness ==
    /\ result.status = "ok"
    /\ features = <<JPY, MXEU>>
    /\ result.market_data = <<4242, 2150>>

\* C7: a Load changes no field of an indicator outside the symbol map; the
\* fields it changes belong to indicators that are in a display group and
\* were returned by the fetch; it adds and removes no field.
C7_LoadFrame ==
    [][lastEvent' = "load" =>
        /\ DOMAIN session_state' = DOMAIN session_state
        /\ \A g \in 1..Len(sections), f \in FeaturePool :
            (f \in Members(g) /\ f \notin SymbolNames) =>
                session_state'[ExpectedKey(g, f)] = session_state[ExpectedKey(g, f)]
        /\ \A k \in DOMAIN session_state :
            session_state'[k] # session_state[k] =>
                \E g \in 1..Len(sections), f \in DOMAIN loaded' :
                    /\ f \in Members(g)
                    /\ k = ExpectedKey(g, f)
                    /\ session_state'[k] = loaded'[f]]_vars

\* C7 witness: a Load has written a fetched value while the field of an
\* indicator outside the symbol map still holds what the user typed
C7_Witness ==
    /\ lastEvent = "load"
    /\ features = <<GTJPY10YR, JPY>>
    /\ JPY \in DOMAIN loaded
    /\ session_state[ExpectedKey(4, JPY)] = 2150
    /\ session_state[ExpectedKey(2, GTJPY10YR)] = 4242

\* C8: in one call every symbol is queried exactly once, and a symbol whose
\* query succeeded is returned with its own latest close whatever the other
\* queries did.
C8_FetchIsolated ==
    /\ \A s \in SymbolNames : queries[s] <= 1
    /\ \A s \in DOMAIN quotes :
        quotes[s].kind = "close" => (s \in DOMAIN data /\ data[s] = quotes[s].close)
    /\ pc = "returned" =>
        /\ DOMAIN quotes = SymbolNames
        /\ \A s \in SymbolNames : queries[s] = 1

\* C8 witness: a call returned after one query raised, one came back empty
\* and the others succeeded with different closes
C8_Witness ==
    /\ pc = "returned"
    /\ quotes[VIX].kind = "raise"
    /\ quotes[MXEU].kind = "empty"
    /\ DXY \in DOMAIN data /\ data[DXY] = 9875
    /\ JPY \in DOMAIN data /\ data[JPY] = 2150
    /\ \A s \in SymbolNames : queries[s] = 1

\* C9: a name listed by several sections has one field per section, each
\* under its own session key, and the value read for it, and placed in the
\* vector, is the one of its last section.
C9_LastSectionWins ==
    \A f \in FeaturePool :
        Cardinality(SectionsOf(f)) > 1 =>
            /\ \A g \in SectionsOf(f) : ExpectedKey(g, f) \in DOMAIN session_state
            /\ \A g, h \in SectionsOf(f) : g # h => ExpectedKey(g, f) # ExpectedKey(h, f)
            /\ feature_values[f] = session_state[ExpectedKey(LastSection(f), f)]
            /\ result.status = "ok" =>
                result.market_data[Position(f)] = session_state[ExpectedKey(LastSection(f), f)]

\* C9 witness: the user typed a value into the Interest Rates field of
\* GTJPY10YR, and the vector holds the Currency Rates field's value
C9_Witness ==
    /\ result.status = "ok"
    /\ features = <<GTJPY10YR>>
    /\ session_state[ExpectedKey(2, GTJPY10YR)] = 4242
    /\ session_state[ExpectedKey(4, GTJPY10YR)] = 167
    /\ result.market_data = <<167>>

\* C10: when Load returned v for an indicator of some display group and the
\* user has not edited its field since, the next Analyze uses v for it in the
\* feature vector.
C10_LoadedValueUsed ==
    lastEvent = "analyze" =>
        \A f \in DOMAIN loaded :
            /\ result.status = "ok"
            /\ result.market_data[Position(f)] = loaded[f]

====
